---- MODULE Spec2Model ----
(***************************************************************************)
(* DocuGen: the document store (server/storage.ts behind server/routes.ts) *)
(* and the client-side generation orchestration (generateProjectDocument,  *)
(* agentModeGenerateDocument, agentModeGenerateAllDocuments) together with  *)
(* the callers that drive them (handleSubmit, handleNextDocument, the      *)
(* regenerate and save mutations of useDocument).                          *)
(*                                                                         *)
(* Every await of the client code is one step of the model, so that other  *)
(* work can interleave exactly where the code suspends.  A text is named   *)
(* by the order in which it first appears; whether a provider or store     *)
(* call returns or throws, and what an evaluation says, is a               *)
(* nondeterministic choice.                                                *)
(***************************************************************************)
EXTENDS Integers, Sequences, FiniteSets, TLC

VARIABLES
    documents,      \* rows of the documents table (one project)
    versions,       \* rows of the versions table, in creation order
    nextDocId,      \* the serial of documents.id
    formData,       \* the generation mode chosen in the project-creation form
    project,        \* generationMode of the created project, "none" before creation
    allDocuments,   \* the client's cached result of the project's documents query
    orc,            \* the orchestration call in progress (locals and position)
    ed,             \* useDocument: cached document, lastSavedContent, save mutation
    lib,            \* the copy of agentModeGenerateDocument the build bundles
    serial,         \* TRUE: a client operation starts only when none is running
    everCurrent,    \* history: <<document id, content>> pairs that were ever stored
    lastWrite,      \* history: the last completed content write
    gcall,          \* history: the last call of generateProjectDocument
    acall,          \* history: the last call of agentModeGenerateDocument
    drv,            \* history: the run of agentModeGenerateAllDocuments
    ops,            \* the number of user operations so far
    db,             \* the database: projects, documents, versions and templates tables
    srv,            \* server operations in progress (deleteProject, template seeding)
    fn              \* the last call of a function of the library or an endpoint

vars == <<documents, versions, nextDocId, formData, project, allDocuments, orc, ed, lib, serial,
          everCurrent, lastWrite, gcall, acall, drv, ops, db, srv, fn>>

-----------------------------------------------------------------------------
(* Bounds *)

MaxContent == 10     \* distinct texts produced in a session
MaxDocs == 8         \* document rows ever inserted
MaxVersions == 4     \* version rows ever inserted
MaxOps == 4          \* user operations in a session
MaxTab == 2          \* the user visits the first MaxTab document types
MaxProjects == 2     \* projects ever created
MaxLen == 2          \* pieces of a prompt template
MaxRows == 2         \* document rows, and version rows, ever inserted into the database
MaxText == 3         \* characters in a provider's answer
MaxRuns == 2         \* runs of initializeDefaultTemplates
MaxSteps == 6        \* calls in a walk over the types; key strokes and saves of a hook
MaxTexts == 2        \* texts a user types into the hook

(* Program constants *)

maxIterations == 3

DOCUMENT_TYPES ==
    <<"project-request", "technical-spec", "prd", "user-flows", "ui-guide",
      "implementation-plan">>

\* an order in which the technical spec comes before the project request
SwappedOrder ==
    <<"technical-spec", "project-request", "prd", "user-flows", "ui-guide",
      "implementation-plan">>

DOCUMENT_TYPE_ORDER == DOCUMENT_TYPES

DocumentType == {DOCUMENT_TYPES[k] : k \in 1..Len(DOCUMENT_TYPES)}

\* Array.prototype.indexOf on the canonical order, 1-based; 0 stands for -1
IndexOf(t) ==
    IF \E k \in 1..Len(DOCUMENT_TYPE_ORDER) : DOCUMENT_TYPE_ORDER[k] = t
    THEN CHOOSE k \in 1..Len(DOCUMENT_TYPE_ORDER) : DOCUMENT_TYPE_ORDER[k] = t
    ELSE 0

\* the absent document (undefined / null)
NoDoc == [id |-> 0, type |-> "", content |-> 0, status |-> ""]


-----------------------------------------------------------------------------
(* DocumentStore: server/storage.ts                                         *)

\* the rows of one type, and the row with a given id (NoDoc when absent)
OfType(docs, t) == {d \in docs : d.type = t}

Row(docs, id) == IF \E d \in docs : d.id = id THEN CHOOSE d \in docs : d.id = id ELSE NoDoc

\* db.insert(documents).values(document).returning()
createDocument(docs, id, type, content, status) ==
    docs \cup {[id |-> id, type |-> type, content |-> content, status |-> status]}

\* db.update(documents).set({...document}).where(eq(documents.id, id)):
\* only the fields the patch names are overwritten
Merge(row, patch) ==
    [id |-> row.id,
     type |-> row.type,
     content |-> IF "content" \in DOMAIN patch THEN patch.content ELSE row.content,
     status |-> IF "status" \in DOMAIN patch THEN patch.status ELSE row.status]

updateDocument(docs, id, patch) ==
    {IF d.id = id THEN Merge(d, patch) ELSE d : d \in docs}

\* an insert that keeps only the newest version
createVersionOnly(vs, documentId, content, source) ==
    <<[documentId |-> documentId, content |-> content, source |-> source]>>

\* db.insert(versions).values(version).returning()
createVersion(vs, documentId, content, source) ==
    Append(vs, [documentId |-> documentId, content |-> content, source |-> source])

\* getDocuments: the project's rows in whatever order the select yields them,
\* then sorted (stably) by the index of their type in the canonical order; rows of
\* one type keep the order the select gave them, which the query leaves open
RECURSIVE Orderings(_)
Orderings(S) ==
    IF S = {} THEN {<<>>}
    ELSE UNION {{<<x>> \o rest : rest \in Orderings(S \ {x})} : x \in S}

RECURSIVE SortedFrom(_, _)
SortedFrom(docs, k) ==
    IF k > Len(DOCUMENT_TYPE_ORDER) THEN {<<>>}
    ELSE {head \o rest : head \in Orderings(OfType(docs, DOCUMENT_TYPE_ORDER[k])),
                         rest \in SortedFrom(docs, k + 1)}

getDocuments(docs) == SortedFrom(docs, 1)

\* Array.prototype.find(doc => doc.type === documentType): the first match
Find(list, t) ==
    IF \E k \in 1..Len(list) : list[k].type = t
    THEN list[CHOOSE k \in 1..Len(list) :
                 /\ list[k].type = t
                 /\ \A j \in 1..(k - 1) : list[j].type # t]
    ELSE NoDoc

\* Array.prototype.some(doc => doc.type === type)
Some(list, t) == \E k \in 1..Len(list) : list[k].type = t


-----------------------------------------------------------------------------
(* History (read by the properties only, never by the program)              *)

\* every <<id, content>> now stored
Stored(docs) == {<<d.id, d.content>> : d \in docs}

\* no request sent to POST /api/generate
NoRequest == [model |-> "", documentType |-> "", schema |-> ""]

NoWrite == [kind |-> "none", id |-> 0, before |-> 0, after |-> 0, nVersions |-> 0,
            vContent |-> 0, vId |-> 0, source |-> ""]

NoGCall == [status |-> "none", type |-> "", passed |-> "", existedBefore |-> FALSE,
            countBefore |-> 0, countAfter |-> 0, wroteVersion |-> FALSE, writes |-> 0,
            failedAt |-> "", nVersions |-> 0, vContent |-> 0, vId |-> 0,
            docsBefore |-> {}, versionsBefore |-> <<>>, returned |-> NoDoc,
            request |-> NoRequest]

NoACall == [status |-> "none", type |-> "", evals |-> 0, gens |-> 0, nVersions |-> 0,
            overwrites |-> 0, firstEval |-> "", metSeen |-> FALSE, threwIn |-> 0,
            threwAt |-> "", initial |-> 0, persisted |-> 0,
            returned |-> NoDoc, vContent |-> 0, vId |-> 0, iterVersions |-> 0,
            request |-> NoRequest]

NoDrv == [started |-> <<>>, overlapped |-> FALSE]

-----------------------------------------------------------------------------
(* Client state                                                             *)

\* a query that has not fetched yet (data is undefined)
Unfetched == [id |-> -1, type |-> "", content |-> 0, status |-> ""]

\* locals of generateProjectDocument, agentModeGenerateDocument and
\* agentModeGenerateAllDocuments, and the caller waiting for them
OrcIdle ==
    [top |-> "idle", pc |-> "idle", documentType |-> "", existingDocuments |-> <<>>,
     content |-> 0, document |-> NoDoc, i |-> 0, improvedContent |-> 0,
     inAgent |-> FALSE, fallback |-> FALSE, typeIdx |-> 0]

\* DocumentEditing and useDocument: the page, the per-type document query cache, the
\* hook's state and the save mutation in flight
EdIdle ==
    [open |-> FALSE, activeDocumentType |-> "project-request",
     cache |-> [t \in DocumentType |-> Unfetched],
     lastSavedContent |-> 0, pendingChanges |-> 0, timer |-> 0, timerLast |-> 0,
     timerType |-> "",
     pc |-> "idle", content |-> 0, mdoc |-> NoDoc, mtype |-> "",
     nVersions |-> 0, vContent |-> 0, vId |-> 0, restored |-> 0]

\* `document` of useDocument: the cached data of the active type, if any
Document(e) ==
    IF e.cache[e.activeDocumentType] = Unfetched THEN NoDoc
    ELSE e.cache[e.activeDocumentType]

\* the page shows type t: its document query fetches unless it holds data already,
\* and the effect on `document` copies a non-empty content into lastSavedContent
Show(e, t, docs) ==
    LET datas == IF e.cache[t] = Unfetched
                 THEN {Find(list, t) : list \in getDocuments(docs)}
                 ELSE {e.cache[t]}
    IN {IF d # NoDoc /\ d.content # 0
        THEN [e EXCEPT !.activeDocumentType = t, !.cache[t] = d,
                       !.lastSavedContent = d.content, !.pendingChanges = 0]
        ELSE [e EXCEPT !.activeDocumentType = t, !.cache[t] = d] : d \in datas}

\* the editing page mounts: every query starts empty
Mount(docs) == Show([EdIdle EXCEPT !.open = TRUE], "project-request", docs)

\* a loop test that stops one iteration early
LoopHeadShort(i) == IF i < maxIterations - 1 THEN "a_eval" ELSE "a_final"

\* `for (let i = 0; i < maxIterations; i++)`: the loop test
LoopHead(i) == IF i < maxIterations THEN "a_eval" ELSE "a_final"

\* a loop body without try/catch in every build
NeverCatches == FALSE

\* whether the build's agentModeGenerateDocument wraps the loop body in try/catch
\* (the copy with structured output does, the plain copy does not)
LoopCatches == lib = "structured"

\* a successor that wraps from the last type round to the first
getNextWrapping(currentType) ==
    IF IndexOf(currentType) = 0 THEN ""
    ELSE DOCUMENT_TYPE_ORDER[(IndexOf(currentType) % Len(DOCUMENT_TYPE_ORDER)) + 1]

\* getNextDocumentType; "" stands for null
getNextDocumentType(currentType) ==
    IF IndexOf(currentType) = 0 \/ IndexOf(currentType) = Len(DOCUMENT_TYPE_ORDER)
    THEN ""
    ELSE DOCUMENT_TYPE_ORDER[IndexOf(currentType) + 1]

\* getPreviousDocumentType: null when indexOf is -1 or 0
getPreviousDocumentType(currentType) ==
    IF IndexOf(currentType) <= 1 THEN "" ELSE DOCUMENT_TYPE_ORDER[IndexOf(currentType) - 1]

\* the key of documentSchemas a document type selects:
\* documentSchemas[documentType] || documentSchemas["default"]
SchemaOf(documentType) ==
    IF documentType \in DocumentType THEN documentType ELSE "default"

\* the request of generateDocumentContent(prompt, model, documentType): with a
\* document type the body carries its schema, without one only prompt and model
Request(model, documentType) ==
    [model |-> model, documentType |-> documentType,
     schema |-> IF documentType # "" THEN SchemaOf(documentType) ELSE ""]

\* an initial generation that passes no document type
InitialRequestPlain(documentType) == Request("gemini-2.5-pro-preview-03-25", "")

\* generateProjectDocument: generateDocumentContent(prompt,
\* "gemini-2.5-pro-preview-03-25", documentType) in the copy with structured output,
\* generateDocumentContent(prompt) with the default model in the plain copy
InitialRequest(documentType) ==
    IF lib = "structured" THEN Request("gemini-2.5-pro-preview-03-25", documentType)
    ELSE Request("gemini-2.5-pro", "")

\* the loop of agentModeGenerateDocument:
\* generateDocumentContent(improvementPrompt, "gemini-2.5-pro-preview-03-25"), or
\* generateDocumentContent(improvementPrompt) in the plain copy
ImprovementRequest ==
    IF lib = "structured" THEN Request("gemini-2.5-pro-preview-03-25", "")
    ELSE Request("gemini-2.5-pro", "")

\* a snapshot taken of the new content instead of the held one
SnapshotOfNew(held, newContent) == newContent

\* the content a Version written ahead of an overwrite carries: the content of the
\* document object the caller holds, not the new content
SnapshotOf(held, newContent) == held.content

\* a loop that breaks on any evaluation but a passing one
AcceptedInverted(evaluation) == evaluation # "meets"

\* `if (evaluation.meets_criteria) break`
Accepted(evaluation) == evaluation = "meets"

\* a generateProjectDocument that swallows the failure and goes on to persist
PersistsAnyway == TRUE

\* what generateProjectDocument does with a failed generation call: nothing is
\* caught, so no step of persistence follows
PersistsAfterFailedGeneration == FALSE

\* how the passed list relates to the store (history only)
Passed(list, docs) ==
    IF list = <<>> THEN "empty" ELSE IF list \in getDocuments(docs) THEN "fresh" ELSE "stale"

NewGCall(type, list) ==
    [NoGCall EXCEPT !.status = "running", !.type = type, !.passed = Passed(list, documents),
                    !.existedBefore = OfType(documents, type) # {},
                    !.countBefore = Cardinality(OfType(documents, type)),
                    !.docsBefore = documents, !.versionsBefore = versions]

NewACall(type) == [NoACall EXCEPT !.status = "running", !.type = type]

\* Texts.  A text is named by the order in which it first appears: the provider
\* and the user produce texts that differ from every text seen before, and the user
\* can also return to the text last saved.
Known ==
    {p[2] : p \in everCurrent}
        \cup {orc.content, orc.improvedContent, ed.content, ed.pendingChanges, ed.timer}

Fresh == 1 + (CHOOSE m \in Known \cup {0} : \A k \in Known : k <= m)

Generated == {c \in {Fresh} : c <= MaxContent}

Typed == Generated \cup ({ed.lastSavedContent} \ {0})


-----------------------------------------------------------------------------
(* Control flow shared by the steps below                                   *)

StoreVars == <<documents, versions, nextDocId, everCurrent, lastWrite>>
FixedVars == <<lib, serial, formData, drv, ops, db, srv, fn>>

\* a user operation: the session is cut off after MaxOps of them
UserOp == ops < MaxOps /\ ops' = ops + 1 /\ UNCHANGED <<lib, serial, formData, drv, db, srv, fn>>

\* a client operation may start
OrcFree == orc.top = "idle" /\ (serial => ed.pc = "idle")
EdFree == ed.pc = "idle" /\ (serial => orc.top = "idle")

\* the documents query of the project (re)fetches
Refetched(docs) == \E list \in getDocuments(docs) : allDocuments' = list

\* the top-level promise settles.  handleSubmit navigates to the editing page after
\* a successful generation; handleNextDocument invalidates the documents query after
\* a successful generation and moves to the next type in either case; onSuccess of
\* the regenerate mutation writes the result into the document query's cache
SettleTop(outcome, doc, docs) ==
    /\ orc' = OrcIdle
    /\ IF orc.top = "next"
       THEN /\ IF outcome = "returned" THEN Refetched(docs) ELSE allDocuments' = allDocuments
            /\ ed' \in Show(ed, orc.documentType, docs)
       ELSE IF orc.top = "regenerate" /\ outcome = "returned"
       THEN /\ allDocuments' = allDocuments
            /\ ed' = [ed EXCEPT !.cache[orc.documentType] = doc,
                                !.lastSavedContent = doc.content,
                                !.pendingChanges = 0]
       ELSE IF orc.top = "submit" /\ outcome = "returned"
       THEN /\ Refetched(docs)
            /\ ed' \in Mount(docs)
       ELSE UNCHANGED <<allDocuments, ed>>

\* a driver that skips the type that failed and goes on with the next one
DriverSkips ==
    IF orc.top = "all" /\ orc.typeIdx < Len(DOCUMENT_TYPE_ORDER)
    THEN /\ orc' = [OrcIdle EXCEPT !.top = "all", !.pc = "d_read",
                                   !.typeIdx = orc.typeIdx + 1]
         /\ UNCHANGED <<allDocuments, ed>>
    ELSE SettleTop("threw", NoDoc, documents)

\* an exception leaves agentModeGenerateDocument: the regenerate mutation catches
\* it once and falls back to generateProjectDocument; every other caller fails
EscapeAgent ==
    IF orc.top = "regenerate" /\ ~orc.fallback
    THEN /\ orc' = [orc EXCEPT !.pc = "r_fallback", !.inAgent = FALSE]
         /\ UNCHANGED <<allDocuments, ed>>
    ELSE SettleTop("threw", NoDoc, documents)

\* an exception leaves generateProjectDocument: inside agentModeGenerateDocument the
\* initial generation is outside the try block
EscapeGenerate ==
    /\ IF orc.inAgent THEN EscapeAgent ELSE SettleTop("threw", NoDoc, documents)
    /\ acall' = IF orc.inAgent THEN [acall EXCEPT !.status = "threw", !.threwAt = "initial"]
                ELSE acall

\* generateProjectDocument returns `row`
ReturnGenerate(row, docs) ==
    IF orc.inAgent
    THEN /\ orc' = [orc EXCEPT !.document = row, !.i = 0, !.pc = LoopHead(0)]
         /\ acall' = [acall EXCEPT !.initial = row.content, !.persisted = row.content]
         /\ UNCHANGED <<allDocuments, ed>>
    ELSE /\ SettleTop("returned", row, docs)
         /\ acall' = acall

\* an exception inside the loop body of agentModeGenerateDocument, in iteration i + 1
ThrowInLoop(at) ==
    /\ acall' = [acall EXCEPT !.threwIn = orc.i + 1, !.threwAt = at,
                              !.status = IF LoopCatches THEN @ ELSE "threw"]
    /\ IF LoopCatches
       THEN orc' = [orc EXCEPT !.pc = "a_final"] /\ UNCHANGED <<allDocuments, ed>>
       ELSE EscapeAgent

\* a content write completed (history)
Overwrote(id, new, n, vContent, vId, source) ==
    [kind |-> "overwrite", id |-> id, before |-> Row(documents, id).content, after |-> new,
     nVersions |-> n, vContent |-> vContent, vId |-> vId, source |-> source]

Created(id, new, n, source) ==
    [NoWrite EXCEPT !.kind = "create", !.id = id, !.after = new, !.nVersions = n,
                    !.source = source]

-----------------------------------------------------------------------------
(* Callers                                                                  *)

\* project-creation.tsx handleSubmit: create the project, then in agent mode navigate
\* to the editing page and start agentModeGenerateAllDocuments in the background, in
\* standard mode await generateProjectDocument(project, "project-request")
HandleSubmit ==
    /\ project = "none"
    /\ OrcFree
    /\ ops < MaxOps /\ ops' = ops + 1
    /\ project' = formData
    /\ IF formData = "agent"
       THEN /\ orc' = [OrcIdle EXCEPT !.top = "all", !.pc = "d_read", !.typeIdx = 1]
            /\ gcall' = gcall
            /\ drv' = NoDrv
            /\ Refetched(documents)
            /\ ed' \in Mount(documents)
       ELSE /\ orc' = [OrcIdle EXCEPT !.top = "submit", !.pc = "g_generate",
                                      !.documentType = "project-request",
                                      !.existingDocuments = <<>>]
            /\ gcall' = NewGCall("project-request", <<>>)
            /\ UNCHANGED <<drv, allDocuments, ed>>
    /\ UNCHANGED <<StoreVars, lib, serial, formData, acall, db, srv, fn>>

\* the user opens (or reloads) the editing page of the project: the page mounts
\* with empty queries and fetches
OpenProject ==
    /\ UserOp
    /\ project # "none"
    /\ OrcFree /\ EdFree
    /\ Refetched(documents)
    /\ ed' \in Mount(documents)
    /\ UNCHANGED <<StoreVars, project, orc, gcall, acall>>

\* DocumentEditing.handleNextDocument (the Next button is rendered in standard mode,
\* disabled on the last type and while there is no document)
HandleNextDocument ==
    /\ UserOp
    /\ ed.open
    /\ project = "standard"
    /\ OrcFree
    /\ Document(ed) # NoDoc
    /\ getNextDocumentType(ed.activeDocumentType) # ""
    /\ IndexOf(ed.activeDocumentType) < MaxTab
    /\ LET nextType == getNextDocumentType(ed.activeDocumentType)
           toSave == IF ed.pendingChanges # 0 THEN ed.pendingChanges ELSE ed.lastSavedContent
           saved == IF toSave # 0
                    THEN [ed EXCEPT !.pendingChanges = toSave, !.timer = toSave,
                                    !.timerLast = ed.lastSavedContent,
                                    !.timerType = ed.activeDocumentType]
                    ELSE ed
       IN IF ~Some(allDocuments, nextType)
          THEN /\ orc' = [OrcIdle EXCEPT !.top = "next", !.pc = "g_generate",
                                         !.documentType = nextType,
                                         !.existingDocuments = allDocuments,
                                         !.inAgent = (project = "agent")]
               /\ gcall' = NewGCall(nextType, allDocuments)
               /\ acall' = IF project = "agent" THEN NewACall(nextType) ELSE acall
               /\ ed' = saved
          ELSE /\ ed' \in Show(saved, nextType, documents)
               /\ UNCHANGED <<orc, gcall, acall>>
    /\ UNCHANGED <<StoreVars, project, allDocuments>>

\* useDocument.regenerateDocument -> regenerateDocumentMutation:
\* agentModeGenerateDocument(project, documentType, allDocuments || [])
Regenerate ==
    /\ UserOp
    /\ ed.open
    /\ OrcFree
    /\ orc' = [OrcIdle EXCEPT !.top = "regenerate", !.pc = "g_generate",
                              !.documentType = ed.activeDocumentType,
                              !.existingDocuments = allDocuments,
                              !.inAgent = TRUE]
    /\ gcall' = NewGCall(ed.activeDocumentType, allDocuments)
    /\ acall' = NewACall(ed.activeDocumentType)
    /\ UNCHANGED <<StoreVars, project, allDocuments, ed>>

\* the catch block of regenerateDocumentMutation: fall back to
\* generateProjectDocument with the same context.documents
RegenerateFallback ==
    /\ orc.pc = "r_fallback"
    /\ orc' = [OrcIdle EXCEPT !.top = "regenerate", !.pc = "g_generate",
                              !.documentType = orc.documentType,
                              !.existingDocuments = orc.existingDocuments,
                              !.fallback = TRUE]
    /\ gcall' = NewGCall(orc.documentType, orc.existingDocuments)
    /\ UNCHANGED <<StoreVars, FixedVars, project, allDocuments, ed, acall>>

-----------------------------------------------------------------------------
(* generateProjectDocument                                                  *)

\* getDefaultTemplate, replacePromptPlaceholders and generateDocumentContent return
GenerateContent ==
    /\ orc.pc = "g_generate"
    /\ \E c \in Generated :
         orc' = [orc EXCEPT !.content = c,
                            !.pc = IF Find(orc.existingDocuments, orc.documentType) # NoDoc
                                   THEN "g_version" ELSE "g_create"]
    /\ gcall' = [gcall EXCEPT !.request = InitialRequest(orc.documentType)]
    /\ UNCHANGED <<StoreVars, FixedVars, project, allDocuments, ed, acall>>

\* ... or one of them throws ("Failed to generate document content")
GenerateContentFails ==
    /\ orc.pc = "g_generate"
    /\ IF PersistsAfterFailedGeneration
       THEN /\ orc' = [orc EXCEPT !.pc = IF Find(orc.existingDocuments, orc.documentType) # NoDoc
                                          THEN "g_version" ELSE "g_create"]
            /\ gcall' = [gcall EXCEPT !.failedAt = "generate",
                                      !.request = InitialRequest(orc.documentType)]
            /\ UNCHANGED <<allDocuments, ed, acall>>
       ELSE /\ EscapeGenerate
            /\ gcall' = [gcall EXCEPT !.status = "threw", !.failedAt = "generate",
                                      !.request = InitialRequest(orc.documentType),
                                      !.countAfter = Cardinality(OfType(documents, gcall.type))]
    /\ UNCHANGED <<StoreVars, FixedVars, project>>

\* createVersion({documentId: existingDoc.id, content: existingDoc.content,
\*                source: "ai-generator"})
GenCreateVersion ==
    /\ orc.pc = "g_version"
    /\ Len(versions) < MaxVersions
    /\ LET existingDoc == Find(orc.existingDocuments, orc.documentType)
       IN /\ Row(documents, existingDoc.id) # NoDoc
          /\ versions' = createVersion(versions, existingDoc.id,
                                       SnapshotOf(existingDoc, orc.content), "ai-generator")
    /\ orc' = [orc EXCEPT !.pc = "g_update"]
    /\ gcall' = [gcall EXCEPT !.wroteVersion = TRUE, !.writes = @ + 1,
                              !.nVersions = @ + 1,
                              !.vContent = versions'[Len(versions')].content,
                              !.vId = versions'[Len(versions')].documentId]
    /\ UNCHANGED <<documents, nextDocId, everCurrent, lastWrite, FixedVars, project,
                   allDocuments, ed, acall>>

\* updateDocument(existingDoc.id, {content, status: "draft", updatedAt})
GenUpdateDocument ==
    /\ orc.pc = "g_update"
    /\ LET existingDoc == Find(orc.existingDocuments, orc.documentType)
       IN /\ Row(documents, existingDoc.id) # NoDoc
          /\ documents' = updateDocument(documents, existingDoc.id,
                                         [content |-> orc.content, status |-> "draft"])
          /\ lastWrite' = Overwrote(existingDoc.id, orc.content, gcall.nVersions,
                                    gcall.vContent, gcall.vId, "ai-generator")
          /\ ReturnGenerate(Row(documents', existingDoc.id), documents')
          /\ gcall' = [gcall EXCEPT !.status = "returned", !.writes = @ + 1,
                                    !.returned = Row(documents', existingDoc.id),
                                    !.countAfter = Cardinality(OfType(documents', gcall.type))]
    /\ everCurrent' = everCurrent \cup Stored(documents')
    /\ UNCHANGED <<versions, nextDocId, FixedVars, project>>

\* createDocument({projectId, type: documentType, content, status: "draft"})
GenCreateDocument ==
    /\ orc.pc = "g_create"
    /\ nextDocId <= MaxDocs
    /\ documents' = createDocument(documents, nextDocId, orc.documentType, orc.content, "draft")
    /\ nextDocId' = nextDocId + 1
    /\ lastWrite' = Created(nextDocId, orc.content, gcall.nVersions, "ai-generator")
    /\ ReturnGenerate(Row(documents', nextDocId), documents')
    /\ gcall' = [gcall EXCEPT !.status = "returned", !.writes = @ + 1,
                              !.returned = Row(documents', nextDocId),
                              !.countAfter = Cardinality(OfType(documents', gcall.type))]
    /\ everCurrent' = everCurrent \cup Stored(documents')
    /\ UNCHANGED <<versions, FixedVars, project>>

\* the store call in progress is rejected (a missing row, a failed request)
GenStoreFails ==
    /\ orc.pc \in {"g_version", "g_update", "g_create"}
    /\ EscapeGenerate
    /\ gcall' = [gcall EXCEPT !.status = "threw", !.failedAt = "store",
                              !.countAfter = Cardinality(OfType(documents, gcall.type))]
    /\ UNCHANGED <<StoreVars, FixedVars, project>>

-----------------------------------------------------------------------------
(* agentModeGenerateDocument                                                *)

\* evaluateContent(document.content, criteria) returns
Evaluate ==
    /\ orc.pc = "a_eval"
    /\ \E evaluation \in {"meets", "fails"} :
         /\ orc' = [orc EXCEPT !.pc = IF Accepted(evaluation) THEN "a_final" ELSE "a_improve"]
         /\ acall' = [acall EXCEPT !.evals = @ + 1,
                                   !.firstEval = IF acall.evals = 0 THEN evaluation ELSE @,
                                   !.metSeen = @ \/ evaluation = "meets"]
    /\ UNCHANGED <<StoreVars, FixedVars, project, allDocuments, ed, gcall>>

\* ... or throws ("Failed to evaluate content")
EvaluateFails ==
    /\ orc.pc = "a_eval"
    /\ ThrowInLoop("evaluate")
    /\ UNCHANGED <<StoreVars, FixedVars, project, gcall>>

\* generateDocumentContent(improvementPrompt, model) returns
Improve ==
    /\ orc.pc = "a_improve"
    /\ \E c \in Generated : orc' = [orc EXCEPT !.improvedContent = c, !.pc = "a_version"]
    /\ acall' = [acall EXCEPT !.gens = @ + 1, !.request = ImprovementRequest]
    /\ UNCHANGED <<StoreVars, FixedVars, project, allDocuments, ed, gcall>>

ImproveFails ==
    /\ orc.pc = "a_improve"
    /\ ThrowInLoop("improve")
    /\ UNCHANGED <<StoreVars, FixedVars, project, gcall>>

\* createVersion({documentId: document.id, content: document.content,
\*                source: "agent-refinement"})
AgentCreateVersion ==
    /\ orc.pc = "a_version"
    /\ Len(versions) < MaxVersions
    /\ Row(documents, orc.document.id) # NoDoc
    /\ versions' = createVersion(versions, orc.document.id,
                                 SnapshotOf(orc.document, orc.improvedContent),
                                 "agent-refinement")
    /\ orc' = [orc EXCEPT !.pc = "a_update"]
    /\ acall' = [acall EXCEPT !.nVersions = @ + 1, !.iterVersions = 1,
                              !.vContent = versions'[Len(versions')].content,
                              !.vId = versions'[Len(versions')].documentId]
    /\ UNCHANGED <<documents, nextDocId, everCurrent, lastWrite, FixedVars, project,
                   allDocuments, ed, gcall>>

\* document = updateDocument(document.id, {content: improvedContent, status: "draft"})
AgentUpdateDocument ==
    /\ orc.pc = "a_update"
    /\ Row(documents, orc.document.id) # NoDoc
    /\ documents' = updateDocument(documents, orc.document.id,
                                   [content |-> orc.improvedContent, status |-> "draft"])
    /\ lastWrite' = Overwrote(orc.document.id, orc.improvedContent, acall.iterVersions,
                              acall.vContent, acall.vId, "agent-refinement")
    /\ everCurrent' = everCurrent \cup Stored(documents')
    /\ orc' = [orc EXCEPT !.document = Row(documents', orc.document.id),
                          !.i = @ + 1, !.pc = LoopHead(orc.i + 1)]
    /\ acall' = [acall EXCEPT !.overwrites = @ + 1, !.persisted = orc.improvedContent,
                              !.iterVersions = 0]
    /\ UNCHANGED <<versions, nextDocId, FixedVars, project, allDocuments, ed, gcall>>

\* createVersion or updateDocument is rejected inside the loop body
AgentStoreFails ==
    /\ orc.pc \in {"a_version", "a_update"}
    /\ ThrowInLoop("store")
    /\ UNCHANGED <<StoreVars, FixedVars, project, gcall>>

\* a final update that also writes a content
FinalPatchWithContent == [status |-> "completed", content |-> 0]

\* the patch of the final update: {status: "completed", updatedAt: new Date()}
FinalPatch == [status |-> "completed"]

\* return updateDocument(document.id, {status: "completed"}); under
\* agentModeGenerateAllDocuments the for-of loop then moves to the next type
AgentFinal ==
    /\ orc.pc = "a_final"
    /\ Row(documents, orc.document.id) # NoDoc
    /\ documents' = updateDocument(documents, orc.document.id, FinalPatch)
    /\ everCurrent' = everCurrent \cup Stored(documents')
    /\ acall' = [acall EXCEPT !.status = "completed",
                              !.returned = Row(documents', orc.document.id)]
    /\ IF orc.top = "all" /\ orc.typeIdx < Len(DOCUMENT_TYPE_ORDER)
       THEN /\ orc' = [OrcIdle EXCEPT !.top = "all", !.pc = "d_read",
                                      !.typeIdx = orc.typeIdx + 1]
            /\ UNCHANGED <<allDocuments, ed>>
       ELSE SettleTop("returned", Row(documents', orc.document.id), documents')
    /\ UNCHANGED <<versions, nextDocId, lastWrite, FixedVars, project, gcall>>

\* the final updateDocument is rejected: outside the try block
AgentFinalFails ==
    /\ orc.pc = "a_final"
    /\ acall' = [acall EXCEPT !.status = "threw", !.threwAt = "final"]
    /\ EscapeAgent
    /\ UNCHANGED <<StoreVars, FixedVars, project, gcall>>

-----------------------------------------------------------------------------
(* agentModeGenerateAllDocuments                                            *)

\* const existingDocs = await getDocuments(project.id); then
\* agentModeGenerateDocument(project, documentType, existingDocs)
DriverRead ==
    /\ orc.pc = "d_read"
    /\ \E existingDocs \in getDocuments(documents) :
         /\ orc' = [orc EXCEPT !.pc = "g_generate",
                               !.documentType = DOCUMENT_TYPE_ORDER[orc.typeIdx],
                               !.existingDocuments = existingDocs,
                               !.inAgent = TRUE]
         /\ gcall' = NewGCall(DOCUMENT_TYPE_ORDER[orc.typeIdx], existingDocs)
    /\ acall' = NewACall(DOCUMENT_TYPE_ORDER[orc.typeIdx])
    /\ drv' = [started |-> Append(drv.started, DOCUMENT_TYPE_ORDER[orc.typeIdx]),
               overlapped |-> drv.overlapped \/ acall.status = "running"]
    /\ UNCHANGED <<StoreVars, lib, serial, formData, ops, project, allDocuments, ed,
                   db, srv, fn>>

\* getDocuments is rejected: the driver's promise rejects
DriverReadFails ==
    /\ orc.pc = "d_read"
    /\ SettleTop("threw", NoDoc, documents)
    /\ UNCHANGED <<StoreVars, FixedVars, project, gcall, acall>>

-----------------------------------------------------------------------------
(* DocumentEditing and useDocument                                          *)

\* handleDocumentSelect: setActiveDocumentType(type)
HandleDocumentSelect ==
    /\ UserOp
    /\ ed.open
    /\ EdFree
    /\ \E type \in DocumentType :
         /\ type # ed.activeDocumentType
         /\ IndexOf(type) <= MaxTab
         /\ ed' \in Show(ed, type, documents)
    /\ UNCHANGED <<StoreVars, project, allDocuments, orc, gcall, acall>>

\* debouncedSave(content): remember the text and (re)start the 2-second timer, whose
\* callback compares with the lastSavedContent of this render
debouncedSave(e, content) ==
    [e EXCEPT !.pendingChanges = content, !.timer = content,
              !.timerLast = e.lastSavedContent, !.timerType = e.activeDocumentType]

\* onSuccess of saveDocumentMutation
SaveSucceeded(e, type, saved) ==
    [e EXCEPT !.cache[type] = saved, !.lastSavedContent = saved.content,
              !.pendingChanges = 0, !.pc = "idle", !.content = 0, !.mdoc = NoDoc,
              !.mtype = "", !.nVersions = 0, !.vContent = 0, !.vId = 0, !.restored = 0]

\* saveDocumentMutation.mutate(content) up to its first store call
Mutate(e, content) ==
    IF Document(e) # NoDoc
    THEN IF content # 0 /\ content # e.lastSavedContent
         THEN [e EXCEPT !.pc = "s_version", !.content = content, !.mdoc = Document(e),
                        !.mtype = e.activeDocumentType]
         ELSE SaveSucceeded(e, e.activeDocumentType, Document(e))
    ELSE IF content # 0
         THEN [e EXCEPT !.pc = "s_create", !.content = content,
                        !.mtype = e.activeDocumentType]
         ELSE e

\* the editor's onChange: saveDocument(content, false)
Edit ==
    /\ UserOp
    /\ ed.open
    /\ EdFree
    /\ Document(ed) # NoDoc
    /\ \E content \in Typed : ed' = debouncedSave(ed, content)
    /\ UNCHANGED <<StoreVars, project, allDocuments, orc, gcall, acall>>

\* the debounce timer fires
TimerFires ==
    /\ ed.timer # 0
    /\ ed.open
    /\ EdFree
    /\ ed' = IF ed.timer # ed.timerLast
             THEN Mutate([ed EXCEPT !.timer = 0, !.timerLast = 0, !.timerType = ""], ed.timer)
             ELSE [ed EXCEPT !.timer = 0, !.timerLast = 0, !.timerType = ""]
    /\ UNCHANGED <<StoreVars, FixedVars, project, allDocuments, orc, gcall, acall>>

\* the Save button: saveDocument(undefined, true)
SaveClick ==
    /\ UserOp
    /\ ed.open
    /\ EdFree
    /\ LET contentToSave == IF ed.pendingChanges # 0 THEN ed.pendingChanges
                            ELSE ed.lastSavedContent
       IN /\ contentToSave # 0
          /\ ed' = Mutate([ed EXCEPT !.timer = 0, !.timerLast = 0, !.timerType = ""], contentToSave)
    /\ UNCHANGED <<StoreVars, project, allDocuments, orc, gcall, acall>>

\* onRestoreVersion of the version history: saveDocument(version.content, true) for
\* a version of the shown document; `restored` remembers which one while the save
\* mutation runs
RestoreVersion ==
    /\ UserOp
    /\ ed.open
    /\ EdFree
    /\ Document(ed) # NoDoc
    /\ \E k \in 1..Len(versions) :
         /\ versions[k].documentId = Document(ed).id
         /\ versions[k].content # 0
         /\ ed' = Mutate([ed EXCEPT !.timer = 0, !.timerLast = 0, !.timerType = "", !.restored = k],
                         versions[k].content)
    /\ UNCHANGED <<StoreVars, project, allDocuments, orc, gcall, acall>>

\* createVersion({documentId: document.id, content: document.content, source: "manual"})
SaveCreateVersion ==
    /\ ed.pc = "s_version"
    /\ Len(versions) < MaxVersions
    /\ Row(documents, ed.mdoc.id) # NoDoc
    /\ versions' = createVersion(versions, ed.mdoc.id, SnapshotOf(ed.mdoc, ed.content),
                                 "manual")
    /\ ed' = [ed EXCEPT !.pc = "s_update", !.nVersions = 1,
                        !.vContent = versions'[Len(versions')].content,
                        !.vId = versions'[Len(versions')].documentId]
    /\ UNCHANGED <<documents, nextDocId, everCurrent, lastWrite, FixedVars, project,
                   allDocuments, orc, gcall, acall>>

\* updateDocument(document.id, {content, updatedAt})
SaveUpdateDocument ==
    /\ ed.pc = "s_update"
    /\ Row(documents, ed.mdoc.id) # NoDoc
    /\ documents' = updateDocument(documents, ed.mdoc.id, [content |-> ed.content])
    /\ lastWrite' = Overwrote(ed.mdoc.id, ed.content, ed.nVersions, ed.vContent, ed.vId,
                              "manual")
    /\ everCurrent' = everCurrent \cup Stored(documents')
    /\ ed' = SaveSucceeded(ed, ed.mtype, Row(documents', ed.mdoc.id))
    /\ UNCHANGED <<versions, nextDocId, FixedVars, project, allDocuments, orc, gcall, acall>>

\* createDocument({projectId, type: documentType, content, status: "draft"})
SaveCreateDocument ==
    /\ ed.pc = "s_create"
    /\ nextDocId <= MaxDocs
    /\ documents' = createDocument(documents, nextDocId, ed.mtype, ed.content, "draft")
    /\ nextDocId' = nextDocId + 1
    /\ lastWrite' = Created(nextDocId, ed.content, 0, "manual")
    /\ everCurrent' = everCurrent \cup Stored(documents')
    /\ ed' = SaveSucceeded(ed, ed.mtype, Row(documents', nextDocId))
    /\ UNCHANGED <<versions, FixedVars, project, allDocuments, orc, gcall, acall>>

\* the store call of the save mutation is rejected: onError
SaveStoreFails ==
    /\ ed.pc \in {"s_version", "s_update", "s_create"}
    /\ ed' = [ed EXCEPT !.pc = "idle", !.content = 0, !.mdoc = NoDoc, !.mtype = "",
                        !.nVersions = 0, !.vContent = 0, !.vId = 0, !.restored = 0]
    /\ UNCHANGED <<StoreVars, FixedVars, project, allDocuments, orc, gcall, acall>>

-----------------------------------------------------------------------------
(* The database behind DatabaseStorage, with several projects               *)

\* a documents row of the database carries its project
DbEmpty ==
    [projects |-> {}, docs |-> {}, vers |-> <<>>, templates |-> <<>>,
     nextProjectId |-> 1, nextDocId |-> 1, nextVersion |-> 1, nextTemplateId |-> 1,
     everDocs |-> {}]

\* deleteProject not running; removedDocs and removedVers count what a run deleted
NoDelete ==
    [pc |-> "idle", id |-> 0, projectDocuments |-> <<>>, outcome |-> "",
     removedDocs |-> 0, removedVers |-> 0, existed |-> FALSE]

\* a run of initializeDefaultTemplates not begun: the templates it has yet to create,
\* how many it found when it began and how many it has created
NoSeed == [pc |-> "idle", remaining |-> <<>>, found |-> 0, inserted |-> 0]

SrvIdle == [del |-> NoDelete, seed |-> [r \in 1..MaxRuns |-> NoSeed]]

\* a reference that is never checked
Unreferenced(parents, id) == TRUE

\* `.references(() => projects.id)` and `.references(() => documents.id)`: the
\* database accepts a row only if the row it refers to exists, and refuses to
\* delete a row that is still referred to
Referenced(parents, id) == id \in parents

NoCall == [name |-> "none"]

\* everything that is not the database side
ClientVars ==
    <<documents, versions, nextDocId, formData, project, allDocuments, orc, ed, lib,
      serial, everCurrent, lastWrite, gcall, acall, drv, ops>>

\* db.select().from(documents).where(eq(documents.projectId, projectId)): the rows of
\* the project, here without the projectId column
SelectDocuments(rows, projectId) ==
    {[id |-> r.id, type |-> r.type, content |-> r.content, status |-> r.status] :
         r \in {x \in rows : x.projectId = projectId}}

\* a comparator that orders by id
compareById(a, b) == a.id - b.id

\* the comparator of getDocuments: aIndex - bIndex, with indexOf giving -1 for a
\* type outside the canonical order
compare(a, b) == (IndexOf(a.type) - 1) - (IndexOf(b.type) - 1)

\* Array.prototype.sort with that comparator: stable, ascending
InsertLast(s, x) ==
    LET k == Cardinality({j \in 1..Len(s) : compare(s[j], x) <= 0})
    IN SubSeq(s, 1, k) \o <<x>> \o SubSeq(s, k + 1, Len(s))

RECURSIVE Sort(_)
Sort(s) ==
    IF s = <<>> THEN <<>>
    ELSE InsertLast(Sort(SubSeq(s, 1, Len(s) - 1)), s[Len(s)])

\* the types the requests insert: the column is text, not the enum, so two
\* canonical types and one foreign type
RowTypes == {"prd", "project-request", "notes"}

\* POST /api/projects
DbCreateProject ==
    /\ db.nextProjectId <= MaxProjects
    /\ db' = [db EXCEPT !.projects = @ \cup {db.nextProjectId}, !.nextProjectId = @ + 1]
    /\ UNCHANGED <<ClientVars, srv, fn>>

\* POST /api/documents -> storage.createDocument: the insert is rejected unless the
\* project exists (documents.projectId references projects.id)
DbCreateDocument ==
    /\ db.nextDocId <= MaxRows
    /\ \E projectId \in 1..MaxProjects, type \in RowTypes :
         /\ Referenced(db.projects, projectId)
         /\ db' = [db EXCEPT !.docs = @ \cup {[id |-> db.nextDocId, projectId |-> projectId,
                                                type |-> type, content |-> db.nextDocId,
                                                status |-> "draft"]},
                             !.nextDocId = @ + 1,
                             !.everDocs = @ \cup {<<db.nextDocId, projectId>>}]
    /\ UNCHANGED <<ClientVars, srv, fn>>

\* GET /api/projects/:projectId/documents -> storage.getDocuments(projectId): the
\* select yields the project's rows in some order, sort orders them
DbGetDocuments ==
    /\ \E projectId \in 1..MaxProjects :
         \E result \in Orderings(SelectDocuments(db.docs, projectId)) :
             fn' = [name |-> "getDocuments", projectId |-> projectId, rows |-> db.docs,
                    selected |-> result, result |-> Sort(result)]
    /\ UNCHANGED <<ClientVars, db, srv>>

\* POST /api/versions -> storage.createVersion
DbCreateVersion ==
    /\ db.nextVersion <= MaxRows
    /\ \E documentId \in 1..MaxRows :
         /\ Referenced({d.id : d \in db.docs}, documentId)
         /\ db' = [db EXCEPT !.vers = createVersion(@, documentId, db.nextVersion, "manual"),
                             !.nextVersion = @ + 1]
    /\ UNCHANGED <<ClientVars, srv, fn>>

\* DELETE /api/projects/:id -> storage.deleteProject(id), for a project that was
\* created at some time: select the project's documents
DeleteProject ==
    /\ srv.del.pc = "idle"
    /\ \E id \in 1..(db.nextProjectId - 1) :
         \E projectDocuments \in Orderings(SelectDocuments(db.docs, id)) :
             srv' = [srv EXCEPT !.del = [NoDelete EXCEPT
                         !.pc = IF projectDocuments = <<>> THEN "project" ELSE "versions",
                         !.id = id,
                         !.existed = id \in db.projects,
                         !.projectDocuments = projectDocuments]]
    /\ UNCHANGED <<ClientVars, db, fn>>

\* what deleteProject resolves to when nothing threw: `return true`
deleteProjectReturns == TRUE

\* DELETE /api/projects/:id: 404 when deleteProject resolved to false, 204 when it
\* resolved to true, 500 when it threw
DeleteStatus(outcome) ==
    IF outcome = "threw" THEN 500 ELSE IF ~deleteProjectReturns THEN 404 ELSE 204

\* deleteDocument(doc.id), first statement: delete the document's versions
DeleteVersions ==
    /\ srv.del.pc = "versions"
    /\ LET doc == Head(srv.del.projectDocuments)
           kept == SelectSeq(db.vers, LAMBDA v : v.documentId # doc.id)
       IN /\ db' = [db EXCEPT !.vers = kept]
          /\ srv' = [srv EXCEPT !.del.pc = "document",
                                !.del.removedVers = @ + Len(db.vers) - Len(kept)]
    /\ UNCHANGED <<ClientVars, fn>>

\* deleteDocument(doc.id), second statement: delete the document; the database
\* rejects it while a version refers to the document, and deleteProject throws
DeleteDocument ==
    /\ srv.del.pc = "document"
    /\ LET doc == Head(srv.del.projectDocuments)
           rest == Tail(srv.del.projectDocuments)
       IN IF Referenced({db.vers[k].documentId : k \in 1..Len(db.vers)}, doc.id)
          THEN /\ srv' = [srv EXCEPT !.del.pc = "idle", !.del.outcome = "threw"]
               /\ db' = db
          ELSE /\ db' = [db EXCEPT !.docs = {d \in @ : d.id # doc.id}]
               /\ srv' = [srv EXCEPT !.del.projectDocuments = rest,
                                     !.del.removedDocs = @ + 1,
                                     !.del.pc = IF rest = <<>> THEN "project"
                                                ELSE "versions"]
    /\ UNCHANGED <<ClientVars, fn>>

\* db.delete(projects).where(eq(projects.id, id)); return true
DeleteProjectRow ==
    /\ srv.del.pc = "project"
    /\ IF Referenced({d.projectId : d \in db.docs}, srv.del.id)
       THEN /\ srv' = [srv EXCEPT !.del.pc = "idle", !.del.outcome = "threw"]
            /\ db' = db
       ELSE /\ db' = [db EXCEPT !.projects = @ \ {srv.del.id}]
            /\ srv' = [srv EXCEPT !.del.pc = "idle", !.del.outcome = "returned"]
    /\ UNCHANGED <<ClientVars, fn>>

-----------------------------------------------------------------------------
(* replacePromptPlaceholders                                                *)

\* A text is a sequence of pieces: plain text "a", a dollar sign "$", the two-character
\* sequences "$$" and "$&", and placeholders.
Pieces == {"a", "$$", "$&", "{{IDEA}}", "{{PRD}}", "{{NOTES}}"}

\* the keys a caller supplies: IDEA and the upper-cased type of a document
Keys == {"IDEA", "PRD"}

\* the source of new RegExp(`{{${key}}}`, "g")
Pattern(key) == IF key = "IDEA" THEN "{{IDEA}}" ELSE IF key = "PRD" THEN "{{PRD}}" ELSE ""

\* texts of at most n pieces
RECURSIVE TextsUpTo(_)
TextsUpTo(n) ==
    IF n = 0 THEN {<<>>}
    ELSE TextsUpTo(n - 1)
             \cup {Append(t, p) : t \in {x \in TextsUpTo(n - 1) : Len(x) = n - 1}, p \in Pieces}

\* what String.prototype.replace inserts for a replacement string: "$$" inserts a
\* dollar sign and "$&" the matched substring, everything else is inserted as it is
RECURSIVE GetSubstitution(_, _)
GetSubstitution(matched, replacement) ==
    IF replacement = <<>> THEN <<>>
    ELSE (IF Head(replacement) = "$$" THEN <<"$">>
          ELSE IF Head(replacement) = "$&" THEN <<matched>>
          ELSE <<Head(replacement)>>) \o GetSubstitution(matched, Tail(replacement))

\* result.replace(new RegExp(`{{${key}}}`, "g"), value): every match, left to right
RECURSIVE replace(_, _, _)
replace(text, key, value) ==
    IF text = <<>> THEN <<>>
    ELSE (IF Head(text) = Pattern(key) THEN GetSubstitution(Head(text), value)
          ELSE <<Head(text)>>) \o replace(Tail(text), key, value)

\* for (const [key, value] of Object.entries(replacements)) result = result.replace(...):
\* `replacements` is the sequence of the object's entries in insertion order
RECURSIVE replacePromptPlaceholders(_, _)
replacePromptPlaceholders(promptTemplate, replacements) ==
    IF replacements = <<>> THEN promptTemplate
    ELSE replacePromptPlaceholders(
             replace(promptTemplate, replacements[1][1], replacements[1][2]),
             Tail(replacements))

\* the objects a caller can pass: entries with distinct keys, each value one piece
Replacements ==
    {<<>>}
        \cup {<<<<k, <<v>>>>>> : k \in Keys, v \in Pieces}
        \cup {<<<<k[1], <<v1>>>>, <<k[2], <<v2>>>>>> :
                  k \in {x \in Keys \X Keys : x[1] # x[2]}, v1 \in Pieces, v2 \in Pieces}

\* a call of replacePromptPlaceholders
ReplacePlaceholders ==
    /\ fn = NoCall
    /\ \E promptTemplate \in TextsUpTo(MaxLen), replacements \in Replacements :
         fn' = [name |-> "replacePromptPlaceholders", promptTemplate |-> promptTemplate,
                replacements |-> replacements,
                result |-> replacePromptPlaceholders(promptTemplate, replacements)]
    /\ UNCHANGED <<ClientVars, db, srv>>

-----------------------------------------------------------------------------
(* Specifications                                                           *)

InitState ==
    /\ documents = {}
    /\ versions = <<>>
    /\ nextDocId = 1
    /\ project = "none"
    /\ allDocuments = <<>>
    /\ orc = OrcIdle
    /\ ed = EdIdle
    /\ everCurrent = {}
    /\ lastWrite = NoWrite
    /\ gcall = NoGCall
    /\ acall = NoACall
    /\ drv = NoDrv
    /\ ops = 0
    /\ db = DbEmpty
    /\ srv = SrvIdle
    /\ fn = NoCall

GenerateSteps ==
    \/ GenerateContent
    \/ GenerateContentFails
    \/ GenCreateVersion
    \/ GenUpdateDocument
    \/ GenCreateDocument
    \/ GenStoreFails

AgentSteps ==
    \/ Evaluate
    \/ EvaluateFails
    \/ Improve
    \/ ImproveFails
    \/ AgentCreateVersion
    \/ AgentUpdateDocument
    \/ AgentStoreFails
    \/ AgentFinal
    \/ AgentFinalFails

\* a standard-mode project edited in one browser tab, built with the structured
\* (try/catch) copy of the agent
Init == InitState /\ formData = "standard" /\ lib = "structured" /\ serial = TRUE

Next ==
    \/ HandleSubmit
    \/ OpenProject
    \/ HandleNextDocument
    \/ Regenerate
    \/ RegenerateFallback
    \/ GenerateSteps
    \/ AgentSteps
    \/ HandleDocumentSelect
    \/ Edit
    \/ TimerFires
    \/ SaveClick
    \/ SaveCreateVersion
    \/ SaveUpdateDocument
    \/ SaveCreateDocument
    \/ SaveStoreFails

Spec == Init /\ [][Next]_vars

\* the same session built with the plain copy of the agent (no try/catch in the loop)
InitPlain == InitState /\ formData = "standard" /\ lib = "plain" /\ serial = TRUE

SpecPlain == InitPlain /\ [][Next]_vars

\* the same session when the debounce timer and the save mutation run while a
\* generation is in flight
InitRace == InitState /\ formData = "standard" /\ lib = "structured" /\ serial = FALSE

SpecRace == InitRace /\ [][Next]_vars

\* an agent-mode project: handleSubmit starts agentModeGenerateAllDocuments and the
\* user leaves the page alone while it runs
InitAll == InitState /\ formData = "agent" /\ lib = "structured" /\ serial = TRUE

NextAll ==
    \/ HandleSubmit
    \/ DriverRead
    \/ DriverReadFails
    \/ GenerateContent
    \/ GenerateContentFails
    \/ GenCreateDocument
    \/ GenStoreFails
    \/ AgentSteps

SpecAll == InitAll /\ [][NextAll]_vars

\* the driver with every pending call eventually settling (a promise resolves or
\* rejects; nothing in the orchestration waits on the user)
SpecAllFair ==
    InitAll /\ [][NextAll]_vars
        /\ WF_vars(DriverRead \/ DriverReadFails)
        /\ WF_vars(GenerateContent \/ GenerateContentFails \/ GenCreateDocument
                       \/ GenStoreFails)
        /\ WF_vars(AgentSteps)

-----------------------------------------------------------------------------
(* Properties                                                               *)

\* the canonical order as the documentation lists it
CanonicalOrder ==
    <<"project-request", "technical-spec", "prd", "user-flows", "ui-guide",
      "implementation-plan">>

\* C1: of content writes applied one at a time, the write that creates a document
\* writes no Version, every write that overwrites it writes exactly one Version, of
\* that document, whose content is the stored content immediately before the overwrite
C1_VersionPerOverwrite ==
    /\ lastWrite.kind = "create" =>
         lastWrite.nVersions = 0
    /\ lastWrite.kind = "overwrite" =>
         /\ lastWrite.nVersions = 1
         /\ lastWrite.vId = lastWrite.id
         /\ lastWrite.vContent = lastWrite.before

\* C2: every Version of a document carries a content that was, at or before the
\* moment the Version was written, the stored content of that same document
C2_VersionWasCurrent ==
    \A k \in 1..Len(versions) :
        <<versions[k].documentId, versions[k].content>> \in everCurrent

C2_Witness ==
    /\ \E k \in 1..Len(versions) : versions[k].source = "ai-generator"
    /\ \E k \in 1..Len(versions) : versions[k].source = "agent-refinement"
    /\ \E k \in 1..Len(versions) : versions[k].source = "manual"

\* C3: when generateProjectDocument returns, whatever list it was passed, at most one
\* document of the type was in the store before and is in the store after, and the
\* call wrote a Version iff a document of the type was in the store before
C3_GenerateUpserts ==
    gcall.status = "returned" =>
        /\ gcall.countBefore <= 1
        /\ gcall.countAfter <= 1
        /\ gcall.wroteVersion <=> gcall.existedBefore

\* C4: the project never has two documents of the same type
C4_OneDocumentPerType ==
    \A t \in DocumentType : Cardinality(OfType(documents, t)) <= 1

\* C5: an agentModeGenerateDocument call in which no evaluation passed and nothing
\* threw ran exactly maxIterations cycles, each of one evaluation, one improvement,
\* one Version and one overwrite, and returned the document with status completed
C5_ExhaustsIterations ==
    /\ (orc.inAgent /\ orc.pc = "a_eval" /\ ~acall.metSeen /\ acall.threwIn = 0) =>
         /\ acall.evals = orc.i
         /\ acall.gens = orc.i
         /\ acall.nVersions = orc.i
         /\ acall.overwrites = orc.i
    /\ (acall.status = "completed" /\ ~acall.metSeen /\ acall.threwIn = 0) =>
         /\ acall.evals = maxIterations
         /\ acall.gens = maxIterations
         /\ acall.nVersions = maxIterations
         /\ acall.overwrites = maxIterations
         /\ acall.returned.status = "completed"

C5_Witness ==
    acall.status = "completed" /\ ~acall.metSeen /\ acall.threwIn = 0

\* C6: an agentModeGenerateDocument call whose first evaluation passed ran no
\* revision cycle (no improvement, no Version, no overwrite) and returned the content
\* of its initial generateProjectDocument call
C6_AcceptedAtOnce ==
    (acall.firstEval = "meets" /\ acall.status # "threw") =>
        /\ acall.evals = 1
        /\ acall.gens = 0
        /\ acall.nVersions = 0
        /\ acall.overwrites = 0
        /\ acall.status = "completed" =>
             /\ acall.returned.content = acall.initial
             /\ acall.returned.status = "completed"

C6_Witness ==
    acall.firstEval = "meets" /\ acall.status = "completed" /\ gcall.existedBefore

\* C7: when the evaluation or the improvement of iteration k throws, the call does
\* not throw, runs no further iteration, and returns with status completed the
\* document whose content was persisted after iteration k - 1
C7_LoopFailureIsAbsorbed ==
    acall.threwAt \in {"evaluate", "improve"} =>
        /\ acall.status # "threw"
        /\ acall.evals <= acall.threwIn
        /\ acall.overwrites = acall.threwIn - 1
        /\ acall.status = "running" => orc.pc = "a_final"
        /\ acall.status = "completed" =>
             /\ acall.returned.content = acall.persisted
             /\ acall.returned.status = "completed"

\* C8 as stated: every invocation of agentModeGenerateDocument reaches COMPLETED
C8_AlwaysCompleted ==
    (acall.status = "running") ~> (acall.status = "completed")

\* C8, amended: an invocation whose initial generation has returned reaches COMPLETED
\* whatever the evaluation, improvement and in-loop store calls return or throw,
\* unless the final status update itself is rejected; and COMPLETED is terminal: the
\* invocation takes no further step
C8_CompletedOnceGenerated ==
    /\ (acall.status = "running" /\ orc.pc \in {"a_eval", "a_improve", "a_version",
                                                "a_update", "a_final"})
           ~> (acall.status = "completed"
                 \/ (acall.status = "threw" /\ acall.threwAt = "final"))
    /\ [](acall.status = "completed" => orc.pc \in {"idle", "d_read"})
    /\ [][acall.status = "completed" =>
            (acall' = acall \/ acall' = NewACall(acall'.type))]_vars

C8_Witness ==
    acall.status = "completed" /\ acall.threwIn > 0

\* C9: when the generation call fails, generateProjectDocument throws at once and
\* the store is as it was when the call began: no document created, no Version
\* written, every existing document with the content and status it had
C9_FailedGenerationWritesNothing ==
    [][(gcall'.failedAt = "generate" /\ gcall.failedAt # "generate") =>
         /\ gcall'.status = "threw"
         /\ gcall'.writes = 0
         /\ documents' = gcall.docsBefore
         /\ versions' = gcall.versionsBefore
         /\ orc'.pc \in {"idle", "r_fallback"}
         /\ orc.inAgent => acall'.status = "threw"]_vars

C9_Witness ==
    gcall.status = "threw" /\ gcall.failedAt = "generate" /\ gcall.existedBefore

\* C10: the driver starts the six types in canonical order, one at a time, never
\* before the previous type's refinement has returned, and the list it passes for a
\* type is the store's content at that moment, holding every earlier type
C10_DriverInOrder ==
    /\ Len(drv.started) <= Len(CanonicalOrder)
    /\ \A k \in 1..Len(drv.started) : drv.started[k] = CanonicalOrder[k]
    /\ ~drv.overlapped
    /\ (orc.top = "all" /\ orc.pc = "g_generate") =>
         /\ orc.documentType = CanonicalOrder[Len(drv.started)]
         /\ orc.existingDocuments \in getDocuments(documents)
         /\ \A j \in 1..(Len(drv.started) - 1) :
              \E d \in documents :
                  /\ d.type = CanonicalOrder[j]
                  /\ d.status = "completed"
                  /\ Find(orc.existingDocuments, CanonicalOrder[j]) = d

C10_Witness ==
    /\ Len(drv.started) = Len(CanonicalOrder)
    /\ orc.pc = "g_generate"
    /\ \E k \in 1..Len(versions) : versions[k].documentId < nextDocId - 1

\* documents are inserted into several projects in any order and listed
NextList ==
    \/ DbCreateProject
    \/ DbCreateDocument
    \/ DbGetDocuments

SpecList == Init /\ [][NextList]_vars

\* the database under concurrent requests: projects, documents and versions are
\* created while a deleteProject runs
NextStore ==
    \/ DbCreateProject
    \/ DbCreateDocument
    \/ DbCreateVersion
    \/ DeleteProject
    \/ DeleteVersions
    \/ DeleteDocument
    \/ DeleteProjectRow

SpecStore == Init /\ [][NextStore]_vars

\* C11: getDocuments(projectId) returns exactly the rows of that project, each once,
\* in non-decreasing position of their type in the canonical order, whatever order
\* the select yielded them in
C11_ListedInCanonicalOrder ==
    fn.name = "getDocuments" =>
        /\ Len(fn.result) = Cardinality(SelectDocuments(fn.rows, fn.projectId))
        /\ {fn.result[k] : k \in 1..Len(fn.result)} = SelectDocuments(fn.rows, fn.projectId)
        /\ \A j, k \in 1..Len(fn.result) :
             j < k => IndexOf(fn.result[j].type) <= IndexOf(fn.result[k].type)
        /\ \A j, k \in 1..Len(fn.result) :
             (/\ j < k
              /\ fn.result[j].type \in DocumentType
              /\ fn.result[k].type \in DocumentType)
                 => \E a, b \in 1..Len(CanonicalOrder) :
                        /\ a <= b
                        /\ CanonicalOrder[a] = fn.result[j].type
                        /\ CanonicalOrder[b] = fn.result[k].type
        /\ (\A r \in fn.rows : r.type \in DocumentType) =>
               fn.result \in getDocuments(SelectDocuments(fn.rows, fn.projectId))

C11_Witness ==
    /\ fn.name = "getDocuments"
    /\ Len(fn.result) >= 2
    /\ fn.result # fn.selected
    /\ \E k \in 1..Len(fn.result) : fn.result[k].type = "notes"

\* C14: no version refers to a missing document and no document to a missing
\* project, in every state; and when deleteProject has returned, the project, its
\* documents and their versions are gone
C14_DeletionCascades ==
    /\ \A k \in 1..Len(db.vers) : \E d \in db.docs : d.id = db.vers[k].documentId
    /\ \A d \in db.docs : d.projectId \in db.projects
    /\ srv.del.outcome = "returned" =>
         /\ srv.del.id \notin db.projects
         /\ \A d \in db.docs : d.projectId # srv.del.id
         /\ \A k \in 1..Len(db.vers) : <<db.vers[k].documentId, srv.del.id>> \notin db.everDocs

C14_Witness ==
    /\ srv.del.outcome = "returned"
    /\ srv.del.removedDocs >= 1
    /\ srv.del.removedVers >= 1
    /\ db.docs # {}

\* C15: a step changes the versions table only by appending rows, except that the
\* cascade of deleteProject removes the versions of the document it is deleting
C15_VersionsAppendOnly ==
    [][\/ /\ Len(db.vers') >= Len(db.vers)
           /\ SubSeq(db.vers', 1, Len(db.vers)) = db.vers
        \/ /\ srv.del.pc = "versions"
           /\ srv'.del.pc = "document"
           /\ db.vers' = SelectSeq(db.vers,
                  LAMBDA v : v.documentId # Head(srv.del.projectDocuments).id)]_vars

C15_Witness ==
    /\ Len(db.vers) >= 1
    /\ srv.del.removedVers >= 1

\* calls of replacePromptPlaceholders on every template and replacements object
SpecReplace == Init /\ [][ReplacePlaceholders]_vars

\* the value supplied for a placeholder, if its name is a supplied key
Supplied(replacements, piece) ==
    {replacements[k][2] : k \in {j \in 1..Len(replacements) :
                                     Pattern(replacements[j][1]) = piece}}

\* the template with every placeholder of a supplied key replaced by its value and
\* everything else left as it is
RECURSIVE Substituted(_, _)
Substituted(template, replacements) ==
    IF template = <<>> THEN <<>>
    ELSE (IF Supplied(replacements, Head(template)) # {}
          THEN CHOOSE v \in Supplied(replacements, Head(template)) : TRUE
          ELSE <<Head(template)>>) \o Substituted(Tail(template), replacements)

\* C12: the result is the template with every {{KEY}} of a supplied key replaced by
\* replacements[KEY] and every other placeholder left unchanged
C12_ReplacesSuppliedKeys ==
    fn.name = "replacePromptPlaceholders" =>
        fn.result = Substituted(fn.promptTemplate, fn.replacements)

(***************************************************************************)
(* evaluateContent and POST /api/evaluate                                  *)
(***************************************************************************)

\* the characters of a provider's answer
Chars == {"{", "}", "5", "x", " "}

\* texts of at most n characters
RECURSIVE StringsUpTo(_)
StringsUpTo(n) ==
    IF n = 0 THEN {<<>>}
    ELSE StringsUpTo(n - 1)
             \cup {Append(t, c) : t \in {x \in StringsUpTo(n - 1) : Len(x) = n - 1}, c \in Chars}

\* the text without its leading and trailing white space
RECURSIVE Trim(_)
Trim(text) ==
    IF text = <<>> THEN <<>>
    ELSE IF Head(text) = " " THEN Trim(Tail(text))
    ELSE IF text[Len(text)] = " " THEN Trim(SubSeq(text, 1, Len(text) - 1))
    ELSE text

\* JSON.parse accepts the text: of these characters a JSON text is a number or an
\* empty object, white space around it and inside the braces allowed
ValidJSON(text) ==
    LET t == Trim(text) IN
        \/ /\ t # <<>>
           /\ \A i \in 1..Len(t) : t[i] = "5"
        \/ /\ Len(t) >= 2
           /\ t[1] = "{"
           /\ t[Len(t)] = "}"
           /\ \A i \in 2..(Len(t) - 1) : t[i] = " "

\* JSON.parse(text) of a valid text
JSONParse(text) == [json |-> Trim(text)]

\* an evaluation that always scores zero
FallbackScoreZero(text) ==
    [score |-> 0, feedback |-> text, meets_criteria |-> FALSE,
     improvement_suggestions |->
         <<"Could not parse structured evaluation. Please check the raw feedback.">>]

\* the body answered when JSON.parse throws
Fallback(text) ==
    [score |-> 5, feedback |-> text, meets_criteria |-> FALSE,
     improvement_suggestions |->
         <<"Could not parse structured evaluation. Please check the raw feedback.">>]

\* the provider's outcomes: generateContent throws, or response.text() is a text
ProviderOutcomes ==
    {[threw |-> TRUE, text |-> <<>>]} \cup {[threw |-> FALSE, text |-> t] : t \in StringsUpTo(MaxText)}

\* the provider was not called
NotCalled == [threw |-> FALSE, text |-> <<"not called">>]

\* POST /api/evaluate: the status and the body of the response
EvaluateRoute(content, criteria, apiKey, provider) ==
    IF content = "" \/ criteria = "" THEN [status |-> 400, body |-> "Content and criteria are required"]
    ELSE IF apiKey = "" THEN [status |-> 500, body |-> "Gemini API key not found"]
    ELSE IF provider.threw THEN [status |-> 500, body |-> "Failed to evaluate content"]
    ELSE IF ValidJSON(provider.text) THEN [status |-> 200, body |-> JSONParse(provider.text)]
    ELSE [status |-> 200, body |-> Fallback(provider.text)]

\* the provider is called once content, criteria and the API key are there
ProviderCalled(content, criteria, apiKey) == content # "" /\ criteria # "" /\ apiKey # ""

\* apiRequest throws on a response that is not OK
apiRequest(response) ==
    IF response.status >= 400 THEN [threw |-> TRUE, res |-> response]
    ELSE [threw |-> FALSE, res |-> response]

\* evaluateContent: the body of the response, or the error thrown in its catch
evaluateContent(content, criteria, apiKey, provider) ==
    LET res == apiRequest(EvaluateRoute(content, criteria, apiKey, provider)) IN
        IF res.threw THEN [threw |-> TRUE, value |-> "Failed to evaluate content"]
        ELSE [threw |-> FALSE, value |-> res.res.body]

\* a call of evaluateContent
EvaluateContent ==
    /\ fn = NoCall
    /\ \E content \in {"", "c"}, criteria \in {"", "k"}, apiKey \in {"", "key"},
          provider \in ProviderOutcomes :
         fn' = [name |-> "evaluateContent", content |-> content, criteria |-> criteria,
                apiKey |-> apiKey,
                provider |-> IF ProviderCalled(content, criteria, apiKey)
                             THEN provider ELSE NotCalled,
                outcome |-> evaluateContent(content, criteria, apiKey, provider)]
    /\ UNCHANGED <<ClientVars, db, srv>>

\* calls of evaluateContent on every request and provider outcome
SpecEvaluate == Init /\ [][EvaluateContent]_vars

\* the provider was called and answered a text that is not JSON
AnsweredNotJSON ==
    /\ fn.name = "evaluateContent"
    /\ fn.provider # NotCalled
    /\ ~fn.provider.threw
    /\ ~ValidJSON(fn.provider.text)

\* a text that is not JSON is answered with the fallback evaluation
DegradesOnNotJSON ==
    AnsweredNotJSON =>
        /\ ~fn.outcome.threw
        /\ fn.outcome.value.score = 5
        /\ fn.outcome.value.meets_criteria = FALSE
        /\ fn.outcome.value.feedback = fn.provider.text
        /\ Len(fn.outcome.value.improvement_suggestions) = 1

\* C13 as stated: a text that is not JSON is answered with score 5, meets_criteria
\* false, the text as feedback and one suggestion, and evaluateContent fails only
\* when the provider call itself throws
C13_FailsOnlyWhenProviderThrows ==
    /\ DegradesOnNotJSON
    /\ (fn.name = "evaluateContent" /\ fn.outcome.threw) => fn.provider.threw

\* C13: a text that is not JSON is answered with score 5, meets_criteria false, the
\* text as feedback and one suggestion, and evaluateContent fails only when the
\* provider call throws or the request is rejected before the provider is called
C13_DegradesOnNotJSON ==
    /\ DegradesOnNotJSON
    /\ (fn.name = "evaluateContent" /\ fn.outcome.threw) =>
           (fn.provider.threw \/ fn.provider = NotCalled)

C13_Witness ==
    /\ AnsweredNotJSON
    /\ fn.provider.text = <<"{", "x">>
    /\ ~fn.outcome.threw

(***************************************************************************)
(* The templates table, its seeding and the templates page                 *)
(***************************************************************************)

\* createTemplate: the row is appended with the next serial id
createTemplate(d, type, isDefault) ==
    [d EXCEPT !.templates = Append(@, [id |-> d.nextTemplateId, type |-> type,
                                       isDefault |-> isDefault]),
              !.nextTemplateId = @ + 1]

\* updateTemplate: set({...template}) where id = id; no other row is written
updateTemplate(d, id, isDefault) ==
    [d EXCEPT !.templates =
        [k \in 1..Len(@) |->
            IF @[k].id = id THEN [@[k] EXCEPT !.isDefault = isDefault] ELSE @[k]]]

\* the rows getDefaultTemplate selects from: type = type and isDefault
DefaultsOf(rows, type) ==
    {k \in 1..Len(rows) : rows[k].type = type /\ rows[k].isDefault}

\* the types of defaultTemplates, in the order of the array
BuiltIn ==
    <<"project-request", "technical-spec", "prd", "user-flows", "ui-guide",
      "implementation-plan">>

\* const existingTemplates = await this.getTemplates(); if (length === 0) { ... }
SeedStart(r) ==
    /\ srv.seed[r].pc = "idle"
    /\ srv' = [srv EXCEPT !.seed[r] =
                   [pc |-> IF Len(db.templates) = 0 THEN "insert" ELSE "done",
                    remaining |-> IF Len(db.templates) = 0 THEN BuiltIn ELSE <<>>,
                    found |-> Len(db.templates), inserted |-> 0]]
    /\ UNCHANGED <<ClientVars, db, fn>>

\* for (const template of defaultTemplates) await this.createTemplate({...})
SeedInsert(r) ==
    /\ srv.seed[r].pc = "insert"
    /\ db' = createTemplate(db, Head(srv.seed[r].remaining), TRUE)
    /\ srv' = [srv EXCEPT !.seed[r].remaining = Tail(@),
                          !.seed[r].inserted = @ + 1,
                          !.seed[r].pc = IF Len(srv.seed[r].remaining) = 1
                                         THEN "done" ELSE "insert"]
    /\ UNCHANGED <<ClientVars, fn>>

\* an operation of the templates page: the session is cut off after MaxOps of them
TemplateOp ==
    /\ ops < MaxOps
    /\ ops' = ops + 1
    /\ UNCHANGED <<documents, versions, nextDocId, formData, project, allDocuments, orc,
                   ed, lib, serial, everCurrent, lastWrite, gcall, acall, drv, srv, fn>>

\* handleCreateTemplate: POST /api/templates with the form's type and isDefault
HandleCreateTemplate ==
    /\ TemplateOp
    /\ \E type \in RowTypes, isDefault \in BOOLEAN :
         db' = createTemplate(db, type, isDefault)

\* handleSetDefault: nothing for a template that is the default, otherwise
\* PATCH /api/templates/:id with isDefault true
HandleSetDefault ==
    /\ TemplateOp
    /\ \E k \in 1..Len(db.templates) :
         /\ ~db.templates[k].isDefault
         /\ db' = updateTemplate(db, db.templates[k].id, TRUE)

\* handleUpdateTemplate: PATCH /api/templates/:id with the dialog's name, prompt
\* and isDefault checkbox
HandleUpdateTemplate ==
    /\ TemplateOp
    /\ \E k \in 1..Len(db.templates), isDefault \in BOOLEAN :
         db' = updateTemplate(db, db.templates[k].id, isDefault)

\* one run of the seeding and the operations of the templates page
NextTemplates ==
    \/ SeedStart(1)
    \/ SeedInsert(1)
    \/ HandleCreateTemplate
    \/ HandleSetDefault
    \/ HandleUpdateTemplate

SpecTemplates == Init /\ [][NextTemplates]_vars

\* runs of initializeDefaultTemplates, one after another or overlapping
NextSeed == \E r \in 1..MaxRuns : SeedStart(r) \/ SeedInsert(r)

SpecSeed == Init /\ [][NextSeed]_vars

\* C16: once the templates are seeded, every DocumentType has exactly one template
\* flagged default, whatever the templates page has done
C16_OneDefaultPerType ==
    srv.seed[1].inserted = Len(BuiltIn) =>
        \A type \in DocumentType : Cardinality(DefaultsOf(db.templates, type)) = 1

\* C17: when no run of initializeDefaultTemplates is under way and one has ended, the
\* table holds the six built-in defaults, one per DocumentType, and a run that found
\* templates created none
C17_SeedsExactlyOnce ==
    /\ \A r \in 1..MaxRuns : srv.seed[r].found > 0 => srv.seed[r].inserted = 0
    /\ ((\A r \in 1..MaxRuns : srv.seed[r].pc # "insert")
           /\ (\E r \in 1..MaxRuns : srv.seed[r].pc = "done")) =>
           /\ Len(db.templates) = Len(BuiltIn)
           /\ \A type \in DocumentType : Cardinality(DefaultsOf(db.templates, type)) = 1

\* C18: a store call rejected inside generateProjectDocument or
\* agentModeGenerateDocument, a revision iteration included, makes the call throw to
\* its caller
C18_StoreErrorsReachCaller ==
    /\ gcall.failedAt = "store" => gcall.status = "threw"
    /\ acall.threwAt \in {"store", "final"} => acall.status = "threw"

(***************************************************************************)
(* generateDocumentContent and POST /api/generate                          *)
(***************************************************************************)

\* the models the signature of generateDocumentContent allows, all of them in
\* allowedModels
Models == {"gemini-2.5-pro-preview-03-25", "gemini-pro", "gemini-2.0-flash"}

\* POST /api/generate: the status and the body of the response
GenerateRoute(prompt, model, apiKey, provider) ==
    IF prompt = "" THEN [status |-> 400, body |-> "Prompt is required"]
    ELSE IF apiKey = "" THEN [status |-> 500, body |-> "Gemini API key not found"]
    ELSE IF model \notin Models THEN [status |-> 400, body |-> "Invalid model specified"]
    ELSE IF provider.threw THEN [status |-> 500, body |-> "Failed to generate content"]
    ELSE [status |-> 200, body |-> [content |-> provider.text]]

\* the provider is called once the prompt, the API key and the model are accepted
GenerateCalled(prompt, model, apiKey) == prompt # "" /\ apiKey # "" /\ model \in Models

\* JSON.stringify of a body {content: text}
Stringify(data) == <<"{", "\"content\"", ":", "\"">> \o data.content \o <<"\"", "}">>

\* a field of the body is truthy: present and not the empty string
Truthy(data, field) == field \in DOMAIN data /\ data[field] # <<>>

\* generateDocumentContent: with a document type mainContent, else content, else
\* JSON.stringify(data); without one data.content; the error thrown in its catch
\* when apiRequest throws
generateDocumentContent(prompt, model, documentType, apiKey, provider) ==
    LET res == apiRequest(GenerateRoute(prompt, model, apiKey, provider))
        data == res.res.body
    IN IF res.threw THEN [threw |-> TRUE, value |-> <<"Failed to generate document content">>]
       ELSE IF documentType # ""
       THEN (IF Truthy(data, "mainContent") THEN [threw |-> FALSE, value |-> data.mainContent]
             ELSE IF Truthy(data, "content") THEN [threw |-> FALSE, value |-> data.content]
             ELSE [threw |-> FALSE, value |-> Stringify(data)])
       ELSE [threw |-> FALSE, value |-> data.content]

\* a call of generateDocumentContent; "" stands for no document type
GenerateDocumentContent ==
    /\ fn = NoCall
    /\ \E prompt \in {"", "p"}, model \in Models, documentType \in {"", "prd", "notes"},
          apiKey \in {"", "key"}, provider \in ProviderOutcomes :
         fn' = [name |-> "generateDocumentContent", prompt |-> prompt, model |-> model,
                documentType |-> documentType, apiKey |-> apiKey,
                provider |-> IF GenerateCalled(prompt, model, apiKey)
                             THEN provider ELSE NotCalled,
                outcome |-> generateDocumentContent(prompt, model, documentType, apiKey,
                                                    provider)]
    /\ UNCHANGED <<ClientVars, db, srv>>

\* calls of generateDocumentContent on every request and provider outcome
SpecGenerate == Init /\ [][GenerateDocumentContent]_vars

\* C19: generateDocumentContent throws when the generation call throws or answers no
\* text, with and without a document type, and what it returns is the provider's
\* text, never a substitute
C19_FailsWithoutUsableText ==
    fn.name = "generateDocumentContent" =>
        /\ (fn.provider = NotCalled \/ fn.provider.threw \/ fn.provider.text = <<>>)
               => fn.outcome.threw
        /\ ~fn.outcome.threw => (fn.outcome.value = fn.provider.text
                                    /\ fn.outcome.value # <<>>)

\* agentModeGenerateDocument is inside its revision loop on document id
Revising(id) ==
    /\ orc.inAgent
    /\ orc.pc \in {"a_eval", "a_improve", "a_version", "a_update"}
    /\ orc.document.id = id

\* C20: when a manual save overwrites a document that an agent revision loop is
\* working on, or the loop overwrites a content a manual save has stored since the
\* loop last read the document, the stored content becomes that of this write and
\* the content it overwrote is the content of a Version of the document
C20_InterleavedWritesLoseNothing ==
    [][(/\ lastWrite' # lastWrite
        /\ lastWrite'.kind = "overwrite"
        /\ Revising(lastWrite'.id)
        /\ \/ lastWrite'.source = "manual"
           \/ /\ lastWrite'.source = "agent-refinement"
              /\ lastWrite'.before # orc.document.content)
         => /\ Row(documents', lastWrite'.id).content = lastWrite'.after
            /\ \E k \in 1..Len(versions') :
                   /\ versions'[k].documentId = lastWrite'.id
                   /\ versions'[k].content = lastWrite'.before]_vars

\* C21: in agentModeGenerateDocument the initial generation asks for the primary
\* model with the document type and its schema, and every improvement generation
\* asks for the same model with no document type and no schema
C21_StructuredThenPlain ==
    /\ gcall.request # NoRequest =>
          /\ gcall.request.documentType = gcall.type
          /\ gcall.request.schema = gcall.type
          /\ gcall.request.model = "gemini-2.5-pro-preview-03-25"
    /\ acall.request # NoRequest =>
          /\ acall.request.documentType = ""
          /\ acall.request.schema = ""
          /\ acall.request.model = "gemini-2.5-pro-preview-03-25"

C21_Witness ==
    /\ acall.gens >= 2
    /\ acall.request # NoRequest
    /\ gcall.request # NoRequest
    /\ gcall.type = acall.type

\* C22: a DELETE of a project that is not in the store is answered 404 and removes
\* nothing, and a DELETE of an existing project that completes is answered 204
C22_MissingProjectNotFound ==
    srv.del.outcome # "" =>
        /\ ~srv.del.existed =>
              /\ DeleteStatus(srv.del.outcome) = 404
              /\ srv.del.removedDocs = 0
              /\ srv.del.removedVers = 0
        /\ (srv.del.existed /\ srv.del.outcome = "returned") =>
              DeleteStatus(srv.del.outcome) = 204

(***************************************************************************)
(* getNextDocumentType and getPreviousDocumentType                         *)
(***************************************************************************)

\* a walk begins at a type: one of the six, or a type the order does not hold
NavStart ==
    /\ fn = NoCall
    /\ \E t \in DocumentType \cup {"notes"} :
         fn' = [name |-> "navigate", start |-> t, current |-> t, calls |-> <<>>]
    /\ UNCHANGED <<ClientVars, db, srv>>

\* getNextDocumentType(current); the walk ends on null
NavNext ==
    /\ fn.name = "navigate"
    /\ fn.current # ""
    /\ Len(fn.calls) < MaxSteps
    /\ fn' = [fn EXCEPT !.current = getNextDocumentType(fn.current),
                        !.calls = Append(@, [op |-> "next", arg |-> fn.current,
                                             result |-> getNextDocumentType(fn.current)])]
    /\ UNCHANGED <<ClientVars, db, srv>>

\* getPreviousDocumentType(current); the walk ends on null
NavPrevious ==
    /\ fn.name = "navigate"
    /\ fn.current # ""
    /\ Len(fn.calls) < MaxSteps
    /\ fn' = [fn EXCEPT !.current = getPreviousDocumentType(fn.current),
                        !.calls = Append(@, [op |-> "previous", arg |-> fn.current,
                                             result |-> getPreviousDocumentType(fn.current)])]
    /\ UNCHANGED <<ClientVars, db, srv>>

NextNavigate == NavStart \/ NavNext \/ NavPrevious

\* walks over the document types by next and previous
SpecNavigate == Init /\ [][NextNavigate]_vars

\* the positions of a type in the canonical order as the documentation lists it
PositionsOf(t) == {k \in 1..Len(CanonicalOrder) : CanonicalOrder[k] = t}

\* C23: next is the successor in the canonical order and null for the last or an
\* unknown type, previous the predecessor and null for the first or an unknown
\* type; previous undoes next; and the walk by next from project-request visits the
\* six types once each and then ends
C23_NextAndPreviousAreInverse ==
    fn.name = "navigate" =>
        /\ \A k \in 1..Len(fn.calls) :
             LET c == fn.calls[k] IN
                 /\ c.op = "next" =>
                       IF PositionsOf(c.arg) \subseteq {Len(CanonicalOrder)}
                       THEN c.result = ""
                       ELSE \E j \in PositionsOf(c.arg) : c.result = CanonicalOrder[j + 1]
                 /\ c.op = "previous" =>
                       IF PositionsOf(c.arg) \subseteq {1}
                       THEN c.result = ""
                       ELSE \E j \in PositionsOf(c.arg) : c.result = CanonicalOrder[j - 1]
        /\ \A k \in 1..(Len(fn.calls) - 1) :
             (fn.calls[k].op = "next" /\ fn.calls[k + 1].op = "previous")
                 => fn.calls[k + 1].result = fn.calls[k].arg
        /\ (/\ fn.start = "project-request"
            /\ \A k \in 1..Len(fn.calls) : fn.calls[k].op = "next"
            /\ fn.current = "") =>
               /\ Len(fn.calls) = Len(CanonicalOrder)
               /\ \A j \in 1..Len(CanonicalOrder) : fn.calls[j].arg = CanonicalOrder[j]

C23_Witness ==
    /\ fn.name = "navigate"
    /\ fn.start = "project-request"
    /\ Len(fn.calls) = Len(CanonicalOrder)
    /\ \A k \in 1..Len(fn.calls) : fn.calls[k].op = "next"
    /\ fn.current = ""

\* C24: the save mutation goes to the store only with a content that is neither
\* empty nor the last saved content; otherwise it writes nothing.  When it does, it
\* writes one Version with source manual, of the document, carrying the content
\* stored just before, and then overwrites the content and leaves the status
C24_ManualSaveFrame ==
    [][/\ (ed.pc = "idle" /\ ed'.pc = "s_version") =>
            /\ ed'.content # 0
            /\ ed'.content # ed.lastSavedContent
            /\ documents' = documents /\ versions' = versions
       /\ (ed.pc = "idle" /\ ed'.pc = "idle" /\ orc' = orc) =>
            (documents' = documents /\ versions' = versions)
       /\ (ed.pc = "s_version" /\ ed'.pc = "s_update") =>
            /\ Len(versions') = Len(versions) + 1
            /\ versions'[Len(versions')] =
                   [documentId |-> ed.mdoc.id, content |-> Row(documents, ed.mdoc.id).content,
                    source |-> "manual"]
            /\ documents' = documents
       /\ (ed.pc = "s_update" /\ ed'.pc = "idle" /\ documents' # documents) =>
            /\ versions' = versions
            /\ ed.nVersions = 1
            /\ ed.vContent = Row(documents, ed.mdoc.id).content
            /\ Row(documents', ed.mdoc.id) =
                   [Row(documents, ed.mdoc.id) EXCEPT !.content = ed.content]]_vars

\* the editing session with the version history's Restore button
NextRestore == Next \/ RestoreVersion

SpecRestore == Init /\ [][NextRestore]_vars

\* C25: when the save of a restore overwrites the document, the content becomes that
\* of the restored Version, the Versions that existed are unchanged, and the content
\* stored just before the restore is the content of a manual Version of the document
\* written by this restore
C25_RestoreKeepsHistory ==
    [][/\ Len(versions') >= Len(versions)
       /\ SubSeq(versions', 1, Len(versions)) = versions
       /\ (ed.restored # 0 /\ ed.pc = "s_update" /\ ed'.pc = "idle"
               /\ documents' # documents) =>
            /\ Row(documents', ed.mdoc.id).content = versions[ed.restored].content
            /\ versions[Len(versions)] =
                   [documentId |-> ed.mdoc.id, content |-> Row(documents, ed.mdoc.id).content,
                    source |-> "manual"]]_vars

(***************************************************************************)
(* The debounced save of useDocument, on its own                           *)
(***************************************************************************)

\* the hook of a shown document whose stored content is text 1: its state, the
\* timers set and not yet fired or cleared, saveTimerRef.current (0 for null), the
\* texts typed and the calls of saveDocumentMutation.mutate
HookMounted ==
    [name |-> "useDocument", stored |-> 1, lastSavedContent |-> 1, pendingChanges |-> 0,
     timers |-> {}, saveTimerRef |-> 0, nextTimer |-> 1, edits |-> <<>>, saves |-> <<>>]

\* a debouncedSave that sets a timer without clearing the one before
NotCleared(timers, ref) == timers

\* clearTimeout(saveTimerRef.current): the timer of that id no longer fires
clearTimeout(timers, ref) == {t \in timers : t.id # ref}

\* saveDocumentMutation.mutate(content) and its onSuccess: an update when the
\* content is not empty and differs from lastSavedContent, else the document as it is
HookMutate(h, content, via) ==
    [h EXCEPT !.stored = IF content # 0 /\ content # h.lastSavedContent THEN content ELSE @,
              !.lastSavedContent =
                  IF content # 0 /\ content # h.lastSavedContent THEN content ELSE h.stored,
              !.pendingChanges = 0,
              !.saves = Append(@, [content |-> content, via |-> via,
                                   nEdits |-> Len(h.edits),
                                   lastEdit |-> IF h.edits = <<>> THEN 0
                                                ELSE h.edits[Len(h.edits)]])]

\* the hook is used by the editing page
HookMount ==
    /\ fn = NoCall
    /\ fn' = HookMounted
    /\ UNCHANGED <<ClientVars, db, srv>>

\* a key stroke: saveDocument(content, false), that is debouncedSave(content)
HookEdit ==
    /\ fn.name = "useDocument"
    /\ Len(fn.edits) + Len(fn.saves) < MaxSteps
    /\ \E content \in 1..MaxTexts :
         fn' = [fn EXCEPT !.pendingChanges = content,
                          !.timers = clearTimeout(@, fn.saveTimerRef)
                                         \cup {[id |-> fn.nextTimer, content |-> content,
                                                lastSavedContent |-> fn.lastSavedContent]},
                          !.saveTimerRef = fn.nextTimer,
                          !.nextTimer = @ + 1,
                          !.edits = Append(@, content)]
    /\ UNCHANGED <<ClientVars, db, srv>>

\* a timer's callback runs: if (content !== lastSavedContent) mutate(content), with
\* the lastSavedContent of the render that set the timer
HookTimerFires ==
    /\ fn.name = "useDocument"
    /\ \E t \in fn.timers :
         fn' = IF t.content # t.lastSavedContent
               THEN HookMutate([fn EXCEPT !.timers = @ \ {t}], t.content, "timer")
               ELSE [fn EXCEPT !.timers = @ \ {t}]
    /\ UNCHANGED <<ClientVars, db, srv>>

\* the Save button: saveDocument(undefined, true)
HookSaveNow ==
    /\ fn.name = "useDocument"
    /\ Len(fn.edits) + Len(fn.saves) < MaxSteps
    /\ LET contentToSave == IF fn.pendingChanges # 0 THEN fn.pendingChanges
                            ELSE fn.lastSavedContent
       IN fn' = HookMutate([fn EXCEPT !.timers = clearTimeout(@, fn.saveTimerRef),
                                      !.saveTimerRef = 0],
                           contentToSave, "immediate")
    /\ UNCHANGED <<ClientVars, db, srv>>

NextDebounce == HookMount \/ HookEdit \/ HookTimerFires \/ HookSaveNow

\* key strokes, timers and Save clicks in any order
SpecDebounce == Init /\ [][NextDebounce]_vars

C27_FinalStepOnlyCompletes ==
    [][(orc.pc = "a_final" /\ acall.status = "running" /\ acall'.status = "completed") =>
         /\ versions' = versions
         /\ documents' = (documents \ {Row(documents, orc.document.id)})
                \cup {[Row(documents, orc.document.id) EXCEPT !.status = "completed"]}
         /\ acall'.returned = [Row(documents, orc.document.id) EXCEPT !.status = "completed"]
         /\ acall'.returned.content = acall.persisted]_vars

C27_Witness ==
    /\ acall.status = "completed"
    /\ ~acall.metSeen
    /\ acall.overwrites >= 1
    /\ acall.returned.status = "completed"
    /\ Len(versions) >= 1

\* C28: when the initial generation of a type fails under the driver, the failure
\* leaves agentModeGenerateDocument and the driver, which stops: the failed type and
\* the later ones have no document and no evaluation, nothing was written by the
\* failed call, and every earlier type has its one document, completed
C28_DriverStopsAtFailure ==
    (project = "agent" /\ gcall.failedAt # "") =>
        /\ orc = OrcIdle
        /\ gcall.status = "threw"
        /\ acall.status = "threw" /\ acall.threwAt = "initial"
        /\ acall.evals = 0 /\ acall.gens = 0
        /\ gcall.type = CanonicalOrder[Len(drv.started)]
        /\ documents = gcall.docsBefore
        /\ versions = gcall.versionsBefore
        /\ \A k \in 1..Len(CanonicalOrder) :
             IF k < Len(drv.started)
             THEN \E d \in documents :
                      /\ OfType(documents, CanonicalOrder[k]) = {d}
                      /\ d.status = "completed"
             ELSE OfType(documents, CanonicalOrder[k]) = {}

C28_Witness ==
    /\ project = "agent"
    /\ gcall.failedAt = "generate"
    /\ Len(drv.started) = 3
    /\ Cardinality(documents) = 2
    /\ Len(versions) >= 1

\* C29: the save mutation a debounce timer starts (a step that is no user operation) writes to the document of the type
\* that was active when the timer was set: the store call it goes on to make is for
\* that type and, when the document exists, for the document of that type
C29_SaveStaysWithItsType ==
    [][(ed.timer # 0 /\ ed'.timer = 0 /\ ops' = ops
            /\ ed'.pc \in {"s_version", "s_create"}) =>
         /\ ed'.mtype = ed.timerType
         /\ ed'.pc = "s_version" => ed'.mdoc.type = ed.timerType]_vars


\* the entries of a replacements object in the opposite insertion order
RECURSIVE ReverseEntries(_)
ReverseEntries(replacements) ==
    IF replacements = <<>> THEN <<>>
    ELSE Append(ReverseEntries(Tail(replacements)), Head(replacements))

\* C30: replacePromptPlaceholders gives the same result whatever the order of the keys
\* in the replacements object, also when a value contains the placeholder of another
\* key: the text it has inserted is not scanned for placeholders again
C30_KeyOrderDoesNotMatter ==
    fn.name = "replacePromptPlaceholders" =>
        fn.result = replacePromptPlaceholders(fn.promptTemplate,
                                              ReverseEntries(fn.replacements))

====
